---- MODULE Spec2Model ----
(***************************************************************************)
(* The intraday trading simulation engine of src/sim.py (Order and        *)
(* TradingSimulation) together with the Strategy base class of            *)
(* src/strategy.py and the ClearingMechanism contract of src/clearing.py. *)
(*                                                                         *)
(* Order objects are mutable Python objects that the engine, the          *)
(* strategies and the clearing mechanism share by reference; history      *)
(* records are deep copies.  The model therefore keeps a heap of Order    *)
(* objects (heap) and lets every collection of live orders hold           *)
(* addresses, while order_history holds values.                           *)
(***************************************************************************)
EXTENDS Integers, Sequences, FiniteSets, TLC

VARIABLES
    pc,               \* position inside run() / step()
    idx,              \* index of the strategy the current loop is at
    has_clearing,     \* whether a clearing mechanism was configured
    start_time,       \* TradingSimulation.start_time
    end_time,         \* TradingSimulation.end_time
    time_step,        \* TradingSimulation.time_step
    current_time,     \* TradingSimulation.current_time
    heap,             \* the Order objects, by address
    active_orders,    \* TradingSimulation.active_orders (insertion-ordered dict)
    order_history,    \* TradingSimulation.order_history (deep copies)
    expired_orders,   \* local of step(): result of _expire_contracts
    cleared_orders,   \* local of step(): result of clear()
    results,          \* strategy_results last delivered to each strategy
    view,             \* Strategy.active_orders of each strategy
    window,           \* Strategy.start_time / end_time, number of initialize calls
    new_orders,       \* locals of step(): the tuple update_orders returned
    updated_orders,
    canceled_orders,
    pre_update,       \* values of the objects in updated_orders before the
                      \* strategy's own Order.update calls (observation only)
    step_log,         \* phases the current step has gone through (observation only)
    step_mark,        \* Len(order_history) when the current step began (observation only)
    expire_mark,      \* Len(order_history) when the expire phase ended (observation only)
    steps,            \* number of step() calls that have returned (observation only)
    clearing_memo,    \* the orders a clearing mechanism that keeps state was given last
    update_args,      \* arguments of the next direct Order.update call (SpecOrderUpdate)
    raised            \* the exception that ended the run, if any

\* what run() and step() never assign, and what only a failing or a
\* state-keeping plugin changes
quiet == <<has_clearing, start_time, end_time, time_step, clearing_memo, update_args, raised>>

vars == <<pc, idx, quiet, current_time, heap, active_orders, order_history,
          expired_orders, cleared_orders, results, view, window,
          new_orders, updated_orders, canceled_orders, pre_update,
          step_log, step_mark, expire_mark, steps>>

----------------------------------------------------------------------------
(* Bounds of the model *)

\* Last simulated instant: run() steps at start_time, ..., EndTime.
EndTime == 2
\* Most history records a run may produce (plugin inputs are cut off so that
\* every order still active can get its final record).
MaxHist == 4
\* Most Order objects alive at once.
MaxObjs == 3
\* Most Order.update calls on one order in SpecOrderUpdate.
MaxUpdates == 2
\* Longest sequence clear() returns.
MaxClear == 2

----------------------------------------------------------------------------
(* Configuration and input domains *)

None == -1

\* The simulations run: every instant from 0 to EndTime with and without a
\* clearing mechanism, every second instant, and a window that is empty.
Configs ==
    {[start_time |-> 0, end_time |-> EndTime, time_step |-> 1, has_clearing |-> c] :
        c \in BOOLEAN}
    \cup {[start_time |-> 0, end_time |-> EndTime, time_step |-> 2, has_clearing |-> FALSE],
          [start_time |-> EndTime + 1, end_time |-> EndTime, time_step |-> 1,
           has_clearing |-> FALSE]}

Strategies == <<"s1", "s2">>
StrategyIx == 1..Len(Strategies)
StrategyIds == {Strategies[i] : i \in StrategyIx}
OrderIds == {"a", "b"}
ContractTimes == {0, 2}
Addr == 1..MaxObjs
NoObj == [order_id |-> "none"]

\* The side each strategy trades, the terms of its fresh orders and the
\* values it passes to Order.update.
SideOf(s) == IF s = "s1" THEN "buy" ELSE "sell"
FreshTerms == [price |-> 10, quantity |-> 5]
AmendedTerms == [price |-> 11, quantity |-> 6, contract_time |-> 2]
UpdateArgs == {<<AmendedTerms.price, None>>, <<None, AmendedTerms.quantity>>}

----------------------------------------------------------------------------
(* Order *)

ValidSideAny(side) == TRUE

ValidSide(side) == side \in {"buy", "sell"}

OrderInit(price, quantity, contract_time, side, order_id, submission_time, strategy_id) ==
    [ price           |-> price,
      quantity        |-> quantity,
      contract_time   |-> contract_time,
      side            |-> side,
      order_id        |-> order_id,
      strategy_id     |-> strategy_id,
      submission_time |-> submission_time,
      status          |-> "active",
      execution_price |-> None,
      execution_time  |-> None,
      update_count    |-> 0,
      event_type      |-> "submitted" ]

ValueError == [order_id |-> "none", error |-> "ValueError"]

\* Order(...): the side is validated before any field is assigned.
OrderConstruct(price, quantity, contract_time, side, order_id, submission_time, strategy_id) ==
    IF ~ValidSide(side)
    THEN ValueError
    ELSE OrderInit(price, quantity, contract_time, side, order_id, submission_time, strategy_id)

\* Strategy.create_order: Order(price, quantity, contract_time, side,
\* strategy_id = self.id); the constructor draws the order id (uuid4).
CreateOrder(s, price, quantity, contract_time, side, uuid) ==
    OrderConstruct(price, quantity, contract_time, side, uuid, None, s)

OrderUpdateCountsChanges(o, price, quantity) ==
    [o EXCEPT !.price = IF price # None THEN price ELSE @,
              !.quantity = IF quantity # None THEN quantity ELSE @,
              !.update_count = IF price # None \/ quantity # None THEN @ + 1 ELSE @]

OrderUpdate(o, price, quantity) ==
    [o EXCEPT !.price = IF price # None THEN price ELSE @,
              !.quantity = IF quantity # None THEN quantity ELSE @,
              !.update_count = @ + 1]

----------------------------------------------------------------------------
(* Python dict with insertion order: a sequence of <<key, value>> pairs *)

DictKeys(d) == {d[i][1] : i \in 1..Len(d)}
DictHas(d, k) == k \in DictKeys(d)
DictGet(d, k) == LET i == CHOOSE j \in 1..Len(d) : d[j][1] = k IN d[i][2]

DictSetAppends(d, k, v) == Append(d, <<k, v>>)

DictSet(d, k, v) ==
    IF DictHas(d, k)
    THEN [i \in 1..Len(d) |-> IF d[i][1] = k THEN <<k, v>> ELSE d[i]]
    ELSE Append(d, <<k, v>>)
DictPop(d, k) == SelectSeq(d, LAMBDA e : e[1] # k)
DictValues(d) == [i \in 1..Len(d) |-> d[i][2]]

SeqRange(s) == {s[i] : i \in 1..Len(s)}

----------------------------------------------------------------------------
(* TradingSimulation: the engine's own methods.  Each works on a record    *)
(* st = [heap, active, history] and returns the record after the call.     *)

SnapshotKeepsStatus(order, status, event_type, now) ==
    [order EXCEPT !.event_type = event_type, !.execution_time = now]

Snapshot(order, status, event_type, now) ==
    [order EXCEPT !.status = status, !.event_type = event_type, !.execution_time = now]

IsDueAtOrBefore(order, now) == order.contract_time <= now

IsDue(order, now) == order.contract_time < now

GroupByStrategyId(heap_, orders) ==
    LET ids == {heap_[orders[i]].strategy_id : i \in 1..Len(orders)}
    IN  [sid \in ids |-> SelectSeq(orders, LAMBDA a : heap_[a].strategy_id = sid)]

GroupGetFirst(group, sid) ==
    IF DOMAIN group = {} THEN <<>> ELSE group[CHOOSE k \in DOMAIN group : TRUE]

GroupGet(group, sid) == IF sid \in DOMAIN group THEN group[sid] ELSE <<>>

ExpireOneAliased(st, order_id, a, now) ==
    [ heap    |-> [st.heap EXCEPT ![a].status = "expired", ![a].execution_time = now],
      active  |-> DictPop(st.active, order_id),
      history |-> Append([i \in 1..Len(st.history) |->
                             IF st.history[i].order_id = order_id
                             THEN [st.history[i] EXCEPT !.status = "expired",
                                                        !.execution_time = now]
                             ELSE st.history[i]],
                         Snapshot(st.heap[a], "expired", "expired", now)),
      expired |-> Append(st.expired, a) ]

ExpireOneKeep(st, order_id, a, now) ==
    [ heap    |-> [st.heap EXCEPT ![a].status = "expired", ![a].execution_time = now],
      active  |-> st.active,
      history |-> Append(st.history, Snapshot(st.heap[a], "expired", "expired", now)),
      expired |-> Append(st.expired, a) ]

ExpireOne(st, order_id, a, now) ==
    [ heap    |-> [st.heap EXCEPT ![a].status = "expired", ![a].execution_time = now],
      active  |-> DictPop(st.active, order_id),
      history |-> Append(st.history, Snapshot(st.heap[a], "expired", "expired", now)),
      expired |-> Append(st.expired, a) ]

RECURSIVE ExpireLoop(_, _, _)
ExpireLoop(items, now, st) ==
    IF items = <<>> THEN st
    ELSE LET order_id == Head(items)[1]
             a == Head(items)[2]
         IN  IF IsDue(st.heap[a], now)
             THEN ExpireLoop(Tail(items), now, ExpireOne(st, order_id, a, now))
             ELSE ExpireLoop(Tail(items), now, st)

ExpireContracts(st, now) ==
    ExpireLoop(st.active, now,
               [heap |-> st.heap, active |-> st.active, history |-> st.history,
                expired |-> <<>>])

RECURSIVE ProcessClearingDeduplicates(_, _, _)
ProcessClearingDeduplicates(cleared, now, st) ==
    IF cleared = <<>> THEN st
    ELSE LET a == Head(cleared)
             order == st.heap[a]
         IN  IF ~DictHas(st.active, order.order_id)
             THEN ProcessClearingDeduplicates(Tail(cleared), now, st)
             ELSE ProcessClearingDeduplicates(Tail(cleared), now,
                      [ heap    |-> [st.heap EXCEPT ![a].status = "filled",
                                                    ![a].execution_time = now],
                        active  |-> DictPop(st.active, order.order_id),
                        history |-> Append(st.history,
                                        Snapshot(order, "filled", "filled", now)) ])

RECURSIVE ProcessClearingKeepsActive(_, _, _)
ProcessClearingKeepsActive(cleared, now, st) ==
    IF cleared = <<>> THEN st
    ELSE LET a == Head(cleared)
             order == st.heap[a]
         IN  ProcessClearingKeepsActive(Tail(cleared), now,
                 [ heap    |-> [st.heap EXCEPT ![a].status = "filled",
                                               ![a].execution_time = now],
                   active  |-> st.active,
                   history |-> Append(st.history, Snapshot(order, "filled", "filled", now)) ])

RECURSIVE ProcessClearingResults(_, _, _)
ProcessClearingResults(cleared, now, st) ==
    IF cleared = <<>> THEN st
    ELSE LET a == Head(cleared)
             order == st.heap[a]
         IN  ProcessClearingResults(Tail(cleared), now,
                 [ heap    |-> [st.heap EXCEPT ![a].status = "filled",
                                               ![a].execution_time = now],
                   active  |-> DictPop(st.active, order.order_id),
                   history |-> Append(st.history, Snapshot(order, "filled", "filled", now)) ])

RECURSIVE ProcessNewOrders(_, _, _)
ProcessNewOrders(orders, now, st) ==
    IF orders = <<>> THEN st
    ELSE LET a == Head(orders)
             order == [st.heap[a] EXCEPT
                          !.submission_time = IF @ = None THEN now ELSE @,
                          !.event_type = "submitted"]
         IN  ProcessNewOrders(Tail(orders), now,
                 [ heap    |-> [st.heap EXCEPT ![a] = order],
                   active  |-> DictSet(st.active, order.order_id, a),
                   history |-> Append(st.history, order) ])

UpdateOneOwnOnly(st, u, now) ==
    LET order_id == st.heap[u].order_id
    IN  IF DictHas(st.active, order_id)
           /\ st.heap[DictGet(st.active, order_id)].strategy_id = Strategies[idx]
        THEN LET original == DictGet(st.active, order_id)
             IN  [ heap    |-> [st.heap EXCEPT
                                   ![u].update_count = st.heap[original].update_count + 1],
                   active  |-> DictSet(st.active, order_id, u),
                   history |-> Append(st.history,
                                   Snapshot(st.heap[original], "updated", "updated", now)) ]
        ELSE st

UpdateOneMerges(st, u, now) ==
    LET order_id == st.heap[u].order_id
    IN  IF DictHas(st.active, order_id)
        THEN LET original == DictGet(st.active, order_id)
             IN  [ heap    |-> [st.heap EXCEPT
                                   ![u] = [st.heap[original] EXCEPT
                                              !.price = st.heap[u].price,
                                              !.quantity = st.heap[u].quantity,
                                              !.update_count = @ + 1]],
                   active  |-> DictSet(st.active, order_id, u),
                   history |-> Append(st.history,
                                   Snapshot(st.heap[original], "updated", "updated", now)) ]
        ELSE st

UpdateOneLoud(st, u, now) ==
    LET order_id == st.heap[u].order_id
        original == IF DictHas(st.active, order_id) THEN DictGet(st.active, order_id) ELSE u
    IN  [ heap    |-> [st.heap EXCEPT ![u].update_count = st.heap[original].update_count + 1],
          active  |-> DictSet(st.active, order_id, u),
          history |-> Append(st.history, Snapshot(st.heap[original], "updated", "updated", now)) ]

UpdateOne(st, u, now) ==
    LET order_id == st.heap[u].order_id
    IN  IF DictHas(st.active, order_id)
        THEN LET original == DictGet(st.active, order_id)
             IN  [ heap    |-> [st.heap EXCEPT
                                   ![u].update_count = st.heap[original].update_count + 1],
                   active  |-> DictSet(st.active, order_id, u),
                   history |-> Append(st.history,
                                   Snapshot(st.heap[original], "updated", "updated", now)) ]
        ELSE st

RECURSIVE ProcessUpdatedOrders(_, _, _)
ProcessUpdatedOrders(orders, now, st) ==
    IF orders = <<>> THEN st
    ELSE ProcessUpdatedOrders(Tail(orders), now, UpdateOne(st, Head(orders), now))

ProcessCanceledOrdersIgnored(ids, now, st) == st

RECURSIVE ProcessCanceledOrders(_, _, _)
ProcessCanceledOrders(ids, now, st) ==
    IF ids = <<>> THEN st
    ELSE LET order_id == Head(ids)
         IN  IF DictHas(st.active, order_id)
             THEN ProcessCanceledOrders(Tail(ids), now,
                      [ heap    |-> st.heap,
                        active  |-> DictPop(st.active, order_id),
                        history |-> Append(st.history,
                                        Snapshot(st.heap[DictGet(st.active, order_id)],
                                                 "canceled", "canceled", now)) ])
             ELSE ProcessCanceledOrders(Tail(ids), now, st)

Engine == [heap |-> heap, active |-> active_orders, history |-> order_history]

----------------------------------------------------------------------------
(* Object lifetime: an Order object lives while something refers to it *)

EmptyResults == [expired_orders |-> <<>>, cleared_orders |-> <<>>, active_orders |-> <<>>]

Roots(active, expired, cleared, res, new, updated) ==
    SeqRange(DictValues(active)) \cup SeqRange(expired) \cup SeqRange(cleared)
    \cup SeqRange(new) \cup SeqRange(updated) \cup SeqRange(clearing_memo)
    \cup UNION {SeqRange(res[s].expired_orders) \cup SeqRange(res[s].cleared_orders)
                \cup SeqRange(res[s].active_orders) : s \in StrategyIds}

Collect(h, roots) == [a \in Addr |-> IF a \in roots THEN h[a] ELSE NoObj]

FreeAddrs == {a \in Addr : heap[a] = NoObj}
MinOf(S) == CHOOSE x \in S : \A y \in S : x <= y

----------------------------------------------------------------------------
(* run() and step() *)

AdvanceTimeTwice(now) == now + 2 * time_step

AdvanceTime(now) == now + time_step

LoopTargetExclusive(now) == IF now < end_time THEN "expire" ELSE "done"

LoopTargetReinitializes(now) == IF now <= end_time THEN "init" ELSE "done"

LoopTarget(now) == IF now <= end_time THEN "expire" ELSE "done"

AfterExpireAlwaysClears == "clear"

AfterExpireSkipsFeedback == IF has_clearing THEN "clear" ELSE "decide"

AfterExpire == IF has_clearing THEN "clear" ELSE "feedback"

Init ==
    /\ pc = "init"
    /\ idx = 1
    /\ \E c \in Configs :
          /\ start_time = c.start_time
          /\ end_time = c.end_time
          /\ time_step = c.time_step
          /\ has_clearing = c.has_clearing
    /\ current_time = start_time
    /\ heap = [a \in Addr |-> NoObj]
    /\ active_orders = <<>>
    /\ order_history = <<>>
    /\ expired_orders = <<>>
    /\ cleared_orders = <<>>
    /\ results = [s \in StrategyIds |-> EmptyResults]
    /\ view = [s \in StrategyIds |-> <<>>]
    /\ window = [s \in StrategyIds |-> [start_time |-> None, end_time |-> None, calls |-> 0]]
    /\ new_orders = <<>>
    /\ updated_orders = <<>>
    /\ canceled_orders = <<>>
    /\ pre_update = <<>>
    /\ step_log = <<>>
    /\ step_mark = 0
    /\ expire_mark = 0
    /\ steps = 0
    /\ clearing_memo = <<>>
    /\ update_args = <<>>
    /\ raised = "none"

\* run(): strategy.initialize(start_time, end_time) for each strategy, then the
\* first test of the while loop.
Initialize ==
    /\ pc = "init"
    /\ LET s == Strategies[idx]
       IN  window' = [window EXCEPT ![s] = [start_time |-> start_time, end_time |-> end_time,
                                             calls |-> @.calls + 1]]
    /\ IF idx < Len(Strategies)
       THEN /\ idx' = idx + 1
            /\ pc' = pc
       ELSE /\ idx' = 1
            /\ pc' = LoopTarget(current_time)
    /\ UNCHANGED <<quiet, steps, current_time, heap, active_orders, order_history,
                   expired_orders, cleared_orders, results, view, new_orders,
                   updated_orders, canceled_orders, pre_update, step_log, step_mark,
                   expire_mark>>

\* step(): expired_orders = self._expire_contracts(); cleared_orders = []
Expire ==
    /\ pc = "expire"
    /\ LET st == ExpireContracts(Engine, current_time)
       IN  /\ heap' = st.heap
           /\ active_orders' = st.active
           /\ order_history' = st.history
           /\ expired_orders' = st.expired
           /\ expire_mark' = Len(st.history)
    /\ cleared_orders' = <<>>
    /\ step_log' = <<"expire">>
    /\ step_mark' = Len(order_history)
    /\ idx' = 1
    /\ pc' = AfterExpire
    /\ UNCHANGED <<quiet, steps, current_time, results, view, window, new_orders,
                   updated_orders, canceled_orders, pre_update>>

\* What a clearing mechanism may return: any sequence, repetitions included,
\* of orders of the mapping it was given.
ClearResults(active) ==
    UNION {[1..n -> SeqRange(DictValues(active))] : n \in 0..MaxClear}

ClearBudget(result) ==
    LET gone == {heap[result[i]].order_id : i \in 1..Len(result)}
    IN  Len(order_history) + Len(result)
            + Cardinality(DictKeys(active_orders) \ gone) <= MaxHist

\* step(): cleared_orders = self.clearing_mechanism.clear(current_time, active_orders)
Clear ==
    /\ pc = "clear"
    /\ \E result \in ClearResults(active_orders) :
          /\ ClearBudget(result)
          /\ cleared_orders' = result
    /\ step_log' = Append(step_log, "clear")
    /\ pc' = "process_clearing"
    /\ UNCHANGED <<idx, quiet, steps, current_time, heap, active_orders, order_history,
                   expired_orders, results, view, window, new_orders, updated_orders,
                   canceled_orders, pre_update, step_mark, expire_mark>>

\* step(): self._process_clearing_results(cleared_orders)
ProcessClearing ==
    /\ pc = "process_clearing"
    /\ LET st == ProcessClearingResults(cleared_orders, current_time, Engine)
       IN  /\ heap' = st.heap
           /\ active_orders' = st.active
           /\ order_history' = st.history
    /\ idx' = 1
    /\ pc' = "feedback"
    /\ UNCHANGED <<quiet, steps, current_time, expired_orders, cleared_orders, results,
                   view, window, new_orders, updated_orders, canceled_orders, pre_update,
                   step_log, step_mark, expire_mark>>

StrategyResults(sid) ==
    [ expired_orders |-> GroupGet(GroupByStrategyId(heap, expired_orders), sid),
      cleared_orders |-> GroupGet(GroupByStrategyId(heap, cleared_orders), sid),
      active_orders  |-> GroupGet(GroupByStrategyId(heap, DictValues(active_orders)), sid) ]

ViewOfStale(orders, d) == d

RECURSIVE ViewOf(_, _)
ViewOf(orders, d) ==
    IF orders = <<>> THEN d
    ELSE ViewOf(Tail(orders), DictSet(d, heap[Head(orders)].order_id, Head(orders)))

\* step(): strategy.process_results(strategy_results), one strategy per action;
\* Strategy.process_results keeps the active orders as its local view.
ProcessResults ==
    /\ pc = "feedback"
    /\ LET s == Strategies[idx]
           r == StrategyResults(s)
           res == [results EXCEPT ![s] = r]
       IN  /\ results' = res
           /\ view' = [view EXCEPT ![s] = ViewOf(r.active_orders, <<>>)]
           /\ heap' = Collect(heap, Roots(active_orders, expired_orders, cleared_orders,
                                           res, <<>>, <<>>))
    /\ step_log' = Append(step_log, "feedback")
    /\ IF idx < Len(Strategies)
       THEN /\ idx' = idx + 1
            /\ pc' = pc
       ELSE /\ idx' = 1
            /\ pc' = "decide"
    /\ UNCHANGED <<quiet, steps, current_time, active_orders, order_history,
                   expired_orders, cleared_orders, window, new_orders, updated_orders,
                   canceled_orders, pre_update, step_mark, expire_mark>>

----------------------------------------------------------------------------
(* Strategy.update_orders: the decisions a strategy may return.  A strategy *)
(* builds fresh orders or hands back Order objects it was given in its last *)
(* feedback; before handing one back as an update it calls Order.update.    *)

Held(s) ==
    SeqRange(results[s].expired_orders) \cup SeqRange(results[s].cleared_orders)
    \cup SeqRange(results[s].active_orders)

NewChoices(s) ==
    {<<"none">>}
    \cup {<<"fresh", id, ct>> : id \in OrderIds, ct \in ContractTimes}
    \cup {<<"held", a>> : a \in Held(s)}

UpdatedChoices(s) ==
    {<<"none">>}
    \cup {<<"fresh", id, AmendedTerms.contract_time>> : id \in OrderIds}
    \cup {<<"held", a, args>> : a \in Held(s), args \in UpdateArgs}

CanceledChoices == {<<>>} \cup {<<id>> : id \in OrderIds}

DecisionBudget(n, u) ==
    Len(order_history) + Len(active_orders)
        + (IF n[1] = "none" THEN 0 ELSE 2) + (IF u[1] = "none" THEN 0 ELSE 1) <= MaxHist

\* step(): new_orders, updated_orders, canceled_orders = strategy.update_orders(current_time)
UpdateOrders ==
    /\ pc = "decide"
    /\ \E n \in NewChoices(Strategies[idx]), u \in UpdatedChoices(Strategies[idx]),
          c \in CanceledChoices :
          LET s == Strategies[idx]
              fresh == Cardinality({x \in {n, u} : x[1] = "fresh"})
                       + (IF n = u /\ n[1] = "fresh" THEN 1 ELSE 0)
              a1 == MinOf(FreeAddrs)
              a2 == IF n[1] = "fresh" THEN MinOf(FreeAddrs \ {a1}) ELSE a1
              h1 == IF n[1] = "fresh"
                    THEN [heap EXCEPT ![a1] = OrderInit(FreshTerms.price, FreshTerms.quantity,
                                                        n[3], SideOf(s), n[2], None, s)]
                    ELSE heap
              h2 == IF u[1] = "fresh"
                    THEN [h1 EXCEPT ![a2] = OrderInit(AmendedTerms.price, AmendedTerms.quantity,
                                                      u[3], SideOf(s), u[2], None, s)]
                    ELSE IF u[1] = "held"
                    THEN [h1 EXCEPT ![u[2]] = OrderUpdate(@, u[3][1], u[3][2])]
                    ELSE h1
          IN  /\ DecisionBudget(n, u)
              /\ Cardinality(FreeAddrs) >= fresh
              /\ ValidSide(SideOf(s))
              /\ heap' = h2
              /\ new_orders' = IF n[1] = "none" THEN <<>>
                               ELSE IF n[1] = "fresh" THEN <<a1>> ELSE <<n[2]>>
              /\ updated_orders' = IF u[1] = "none" THEN <<>>
                                   ELSE IF u[1] = "fresh" THEN <<a2>> ELSE <<u[2]>>
              /\ canceled_orders' = c
    /\ pre_update' = [i \in 1..Len(active_orders) |->
                         <<active_orders[i][1], heap[active_orders[i][2]]>>]
    /\ step_log' = Append(step_log, "decide")
    /\ pc' = "new"
    /\ UNCHANGED <<idx, quiet, steps, current_time, active_orders, order_history,
                   expired_orders, cleared_orders, results, view, window, step_mark,
                   expire_mark>>

\* step(): self._process_new_orders(new_orders, strategy)
ProcessNew ==
    /\ pc = "new"
    /\ LET st == ProcessNewOrders(new_orders, current_time, Engine)
       IN  /\ heap' = st.heap
           /\ active_orders' = st.active
           /\ order_history' = st.history
    /\ pc' = "updated"
    /\ UNCHANGED <<idx, quiet, steps, current_time, expired_orders, cleared_orders,
                   results, view, window, new_orders, updated_orders, canceled_orders,
                   pre_update, step_log, step_mark, expire_mark>>

\* step(): self._process_updated_orders(updated_orders, strategy)
ProcessUpdated ==
    /\ pc = "updated"
    /\ LET st == ProcessUpdatedOrders(updated_orders, current_time, Engine)
       IN  /\ heap' = st.heap
           /\ active_orders' = st.active
           /\ order_history' = st.history
    /\ pc' = "canceled"
    /\ UNCHANGED <<idx, quiet, steps, current_time, expired_orders, cleared_orders,
                   results, view, window, new_orders, updated_orders, canceled_orders,
                   pre_update, step_log, step_mark, expire_mark>>

\* step(): self._process_canceled_orders(canceled_orders, strategy); then the
\* next strategy of the loop.  The three locals are dead from here on.
ProcessCanceled ==
    /\ pc = "canceled"
    /\ LET st == ProcessCanceledOrders(canceled_orders, current_time, Engine)
       IN  /\ heap' = Collect(st.heap, Roots(st.active, expired_orders, cleared_orders,
                                              results, <<>>, <<>>))
           /\ active_orders' = st.active
           /\ order_history' = st.history
    /\ new_orders' = <<>>
    /\ updated_orders' = <<>>
    /\ canceled_orders' = <<>>
    /\ pre_update' = <<>>
    /\ IF idx < Len(Strategies)
       THEN /\ idx' = idx + 1
            /\ pc' = "decide"
       ELSE /\ idx' = 1
            /\ pc' = "advance"
    /\ UNCHANGED <<quiet, steps, current_time, expired_orders, cleared_orders, results,
                   view, window, step_log, step_mark, expire_mark>>

AdvanceWithSweep ==
    /\ pc = "advance"
    /\ current_time' = AdvanceTime(current_time)
    /\ steps' = steps + 1
    /\ pc' = LoopTarget(AdvanceTime(current_time))
    /\ active_orders' = IF LoopTarget(AdvanceTime(current_time)) = "done"
                        THEN <<>> ELSE active_orders
    /\ expired_orders' = <<>>
    /\ cleared_orders' = <<>>
    /\ heap' = Collect(heap, Roots(active_orders, <<>>, <<>>, results, <<>>, <<>>))
    /\ step_log' = Append(step_log, "advance")
    /\ UNCHANGED <<idx, quiet, order_history, results, view,
                   window, new_orders, updated_orders, canceled_orders, pre_update,
                   step_mark, expire_mark>>

\* step(): self.current_time += self.time_step, then run()'s loop test.
Advance ==
    /\ pc = "advance"
    /\ current_time' = AdvanceTime(current_time)
    /\ steps' = steps + 1
    /\ pc' = LoopTarget(AdvanceTime(current_time))
    /\ expired_orders' = <<>>
    /\ cleared_orders' = <<>>
    /\ heap' = Collect(heap, Roots(active_orders, <<>>, <<>>, results, <<>>, <<>>))
    /\ step_log' = Append(step_log, "advance")
    /\ UNCHANGED <<idx, quiet, active_orders, order_history, results, view,
                   window, new_orders, updated_orders, canceled_orders, pre_update,
                   step_mark, expire_mark>>

----------------------------------------------------------------------------
(* Exceptions.  run() and step() have no try/except: an exception raised by  *)
(* a plug-in call leaves step() and run() at once.                           *)

PluginCalls == {"clear", "feedback", "decide"}

OnRaiseSwallowed == "advance"

OnRaise == "aborted"

\* clearing_mechanism.clear, strategy.process_results or
\* strategy.update_orders raises.
PluginRaises ==
    /\ pc \in PluginCalls
    /\ raised' = "Exception"
    /\ pc' = OnRaise
    /\ UNCHANGED <<idx, has_clearing, start_time, end_time, time_step, clearing_memo, update_args,
                   steps, current_time, heap, active_orders, order_history,
                   expired_orders, cleared_orders, results, view, window, new_orders,
                   updated_orders, canceled_orders, pre_update, step_log, step_mark,
                   expire_mark>>

OtherSides == {"hold", "BUY"}

\* Inside update_orders a strategy calls self.create_order with a side that
\* is neither "buy" nor "sell"; it does not catch the constructor's error.
CreateOrderOtherSide ==
    /\ pc = "decide"
    /\ \E side \in OtherSides, id \in OrderIds, ct \in ContractTimes :
          LET s == Strategies[idx]
              o == CreateOrder(s, FreshTerms.price, FreshTerms.quantity, ct, side, id)
          IN  IF o = ValueError
              THEN /\ raised' = "ValueError"
                   /\ pc' = OnRaise
                   /\ UNCHANGED <<heap, new_orders, updated_orders, canceled_orders,
                                  pre_update, step_log>>
              ELSE /\ FreeAddrs # {}
                   /\ DecisionBudget(<<"fresh">>, <<"none">>)
                   /\ heap' = [heap EXCEPT ![MinOf(FreeAddrs)] = o]
                   /\ new_orders' = <<MinOf(FreeAddrs)>>
                   /\ updated_orders' = <<>>
                   /\ canceled_orders' = <<>>
                   /\ pre_update' = [i \in 1..Len(active_orders) |->
                                        <<active_orders[i][1], heap[active_orders[i][2]]>>]
                   /\ step_log' = Append(step_log, "decide")
                   /\ pc' = "new"
                   /\ UNCHANGED raised
    /\ UNCHANGED <<idx, has_clearing, start_time, end_time, time_step, clearing_memo, update_args,
                   steps, current_time, active_orders, order_history, expired_orders,
                   cleared_orders, results, view, window, step_mark, expire_mark>>

Next ==
    \/ Initialize
    \/ Expire
    \/ Clear
    \/ ProcessClearing
    \/ ProcessResults
    \/ UpdateOrders
    \/ ProcessNew
    \/ ProcessUpdated
    \/ ProcessCanceled
    \/ Advance
    \/ PluginRaises
    \/ CreateOrderOtherSide

Spec == Init /\ [][Next]_vars

----------------------------------------------------------------------------
(* A clearing mechanism that keeps state between calls: it remembers the     *)
(* Order objects of the mapping it was given and may return any of them at   *)
(* a later call, whether or not the engine still holds them.                 *)

StaleClearResults(active, memo) ==
    UNION {[1..n -> SeqRange(DictValues(active)) \cup SeqRange(memo)] : n \in 0..MaxClear}

ClearStale ==
    /\ pc = "clear"
    /\ \E result \in StaleClearResults(active_orders, clearing_memo) :
          /\ ClearBudget(result)
          /\ cleared_orders' = result
    /\ clearing_memo' = DictValues(active_orders)
    /\ step_log' = Append(step_log, "clear")
    /\ pc' = "process_clearing"
    /\ UNCHANGED <<idx, has_clearing, start_time, end_time, time_step, raised, update_args,
                   steps, current_time, heap, active_orders, order_history,
                   expired_orders, results, view, window, new_orders, updated_orders,
                   canceled_orders, pre_update, step_mark, expire_mark>>

NextStale ==
    \/ Next
    \/ ClearStale

SpecStale == Init /\ [][NextStale]_vars

----------------------------------------------------------------------------
(* Observations shared by the properties *)

Terminal == {"filled", "canceled", "expired"}

HistoryIx(order_id) == {i \in 1..Len(order_history) : order_history[i].order_id = order_id}

Admitted(order_id) ==
    \E i \in HistoryIx(order_id) : order_history[i].event_type = "submitted"

LatestRecord(order_id) ==
    order_history[CHOOSE i \in HistoryIx(order_id) : \A j \in HistoryIx(order_id) : j <= i]

IsActive(order_id) == DictHas(active_orders, order_id)

\* C1: in every state between engine operations, every admitted order_id is
\* either a key of active_orders or has a terminal latest history record,
\* never both and never neither.
C1_ActiveXorTerminal ==
    \A id \in OrderIds :
        Admitted(id) => (IsActive(id) <=> LatestRecord(id).status \notin Terminal)

PhaseRank(phase) ==
    CASE phase = "expire" -> 1
      [] phase = "clear" -> 2
      [] phase = "feedback" -> 3
      [] phase = "decide" -> 4
      [] phase = "advance" -> 5

EventRank(event_type) ==
    CASE event_type = "expired" -> 1
      [] event_type = "filled" -> 2
      [] OTHER -> 4

Count(log, phase) == Cardinality({i \in 1..Len(log) : log[i] = phase})

StepRecords == {i \in 1..Len(order_history) : i > step_mark}

StepFinished == step_log # <<>> /\ step_log[Len(step_log)] = "advance"

\* C2: within every step the phases run in the order expire, clear, feedback,
\* decide-and-apply, advance: the calls of a step and the history records it
\* appends are ordered by phase, and a finished step went through every phase
\* (clear exactly when a clearing mechanism is configured).
C2_PhaseOrder ==
    /\ \A i, j \in 1..Len(step_log) :
          i < j => PhaseRank(step_log[i]) <= PhaseRank(step_log[j])
    /\ \A i, j \in StepRecords :
          i < j => EventRank(order_history[i].event_type)
                      <= EventRank(order_history[j].event_type)
    /\ pc \in {"feedback", "decide", "new", "updated", "canceled", "advance"}
          => /\ Count(step_log, "expire") = 1
             /\ Count(step_log, "clear") = (IF has_clearing THEN 1 ELSE 0)
    /\ pc \in {"new", "updated", "canceled", "advance"}
          => Count(step_log, "feedback") = Len(Strategies)
    /\ StepFinished
          => /\ Count(step_log, "decide") = Len(Strategies)
             /\ Count(step_log, "advance") = 1

C2_Witness ==
    /\ StepFinished
    /\ has_clearing
    /\ \E i, j \in StepRecords :
          /\ order_history[i].event_type = "filled"
          /\ order_history[j].event_type = "submitted"

C4_StaleOrdersGone ==
    StepFinished =>
        \A i \in 1..Len(active_orders) :
            ~(heap[active_orders[i][2]].contract_time < current_time - time_step)

C6_HistoryAppendOnly ==
    [][/\ Len(order_history') >= Len(order_history)
       /\ SubSeq(order_history', 1, Len(order_history)) = order_history]_vars

\* a live object was changed after its snapshot was appended
C6_Witness ==
    \E a \in Addr, i \in 1..Len(order_history) :
        /\ heap[a] # NoObj
        /\ heap[a].order_id = order_history[i].order_id
        /\ order_history[i].event_type = "submitted"
        /\ order_history[i].status = "active"
        /\ heap[a].status = "expired"
        /\ heap[a].submission_time = order_history[i].submission_time

UnknownIds(ids) == \A i \in 1..Len(ids) : ~DictHas(active_orders, ids[i])

UpdatedIds == [i \in 1..Len(updated_orders) |-> heap[updated_orders[i]].order_id]

\* C7: an update or a cancel of an order_id that is not active is a silent
\* no-op: the engine goes on, active_orders and order_history stay as they are.
C7_UnknownIdNoOp ==
    [][/\ (pc = "updated" /\ UnknownIds(UpdatedIds))
          => /\ pc' = "canceled"
             /\ active_orders' = active_orders
             /\ order_history' = order_history
       /\ (pc = "canceled" /\ UnknownIds(canceled_orders))
          => /\ pc' \in {"decide", "advance"}
             /\ active_orders' = active_orders
             /\ order_history' = order_history]_vars

C7_Witness ==
    /\ pc = "canceled"
    /\ updated_orders # <<>>
    /\ UnknownIds(UpdatedIds)
    /\ canceled_orders # <<>>
    /\ UnknownIds(canceled_orders)
    /\ active_orders # <<>>

HasTerminalRecord(order_id) ==
    \E i \in HistoryIx(order_id) : order_history[i].status \in Terminal

\* C8: an order_id that has reached a terminal status is never inserted into
\* active_orders again.
C8_NeverReinserted ==
    [][\A id \in OrderIds :
          (HasTerminalRecord(id) /\ ~IsActive(id)) => ~DictHas(active_orders', id)]_vars

\* C9: a step appends at most one history record for any one order_id.
C9_OneTransitionPerStep ==
    \A id \in OrderIds : Cardinality(StepRecords \cap HistoryIx(id)) <= 1

PreUpdateIx(order_id) == {i \in 1..Len(pre_update) : pre_update[i][1] = order_id}

\* the active entry as it was before the strategy's update: its value when
\* update_orders was called, unless the same call admitted it as a new order
PreUpdateEntry(order_id) ==
    IF PreUpdateIx(order_id) # {}
       /\ \A i \in 1..Len(new_orders) : heap[new_orders[i]].order_id # order_id
    THEN pre_update[CHOOSE i \in PreUpdateIx(order_id) : TRUE][2]
    ELSE heap[DictGet(active_orders, order_id)]

\* C10: an accepted update appends exactly one updated record carrying the
\* pre-update price and quantity, and leaves the active entry with an
\* update_count one above the one it had before the update.
C10_UpdateRecordsPreUpdate ==
    [][(pc = "updated" /\ Len(updated_orders) = 1 /\ ~UnknownIds(UpdatedIds))
          => LET id == UpdatedIds[1]
                 before == PreUpdateEntry(id)
                 rec == order_history'[Len(order_history')]
             IN  /\ Len(order_history') = Len(order_history) + 1
                 /\ rec.event_type = "updated"
                 /\ rec.order_id = id
                 /\ rec.price = before.price
                 /\ rec.quantity = before.quantity
                 /\ heap'[DictGet(active_orders', id)].update_count
                        = before.update_count + 1]_vars

----------------------------------------------------------------------------
(* Scenarios *)

\* one buy order with contract_time = start_time was submitted in the first
\* step, no clearing mechanism is configured and no other decision took effect
ScenarioA ==
    /\ ~has_clearing
    /\ Len(order_history) >= 1
    /\ order_history[1].event_type = "submitted"
    /\ order_history[1].status = "active"
    /\ order_history[1].side = "buy"
    /\ order_history[1].contract_time = start_time
    /\ order_history[1].submission_time = start_time
    /\ \A i \in 2..Len(order_history) : order_history[i].event_type = "expired"

AfterStep(k) == steps = k /\ StepFinished

\* C11 as stated: in scenario A the order is expired, with a submitted and an
\* expired record, after one step.
C11_ScenarioA_AfterOneStep ==
    (ScenarioA /\ AfterStep(1))
        => /\ ~IsActive(order_history[1].order_id)
           /\ Len(order_history) = 2
           /\ order_history[2].status = "expired"

\* C11 (amended): in scenario A the order is still active, with its submitted
\* record only, after one step; after two steps it is out of active_orders and
\* the history holds exactly its submitted and its expired record.
C11_ScenarioA_AfterTwoSteps ==
    ScenarioA
        => /\ AfterStep(1)
              => /\ IsActive(order_history[1].order_id)
                 /\ Len(order_history) = 1
           /\ AfterStep(2)
              => /\ ~IsActive(order_history[1].order_id)
                 /\ active_orders = <<>>
                 /\ Len(order_history) = 2
                 /\ order_history[2] =
                        [order_history[1] EXCEPT !.status = "expired",
                                                 !.event_type = "expired",
                                                 !.execution_time = start_time + time_step]

C11_Witness ==
    /\ ScenarioA
    /\ AfterStep(2)
    /\ Len(order_history) = 2

\* a buy and a sell order were submitted in the first step, a clearing
\* mechanism is configured and no other decision took effect
ScenarioB ==
    /\ has_clearing
    /\ Len(order_history) >= 2
    /\ \A i \in {1, 2} :
          /\ order_history[i].event_type = "submitted"
          /\ order_history[i].status = "active"
          /\ order_history[i].submission_time = start_time
    /\ {order_history[1].side, order_history[2].side} = {"buy", "sell"}
    /\ order_history[1].order_id # order_history[2].order_id
    /\ \A i \in 3..Len(order_history) : order_history[i].event_type = "filled"

ScenarioBIds == {order_history[1].order_id, order_history[2].order_id}

\* clear() returned every order of the mapping it was given
ClearedAllActive ==
    /\ pc \in {"feedback", "decide", "new", "updated", "canceled", "advance"}
    /\ {heap[cleared_orders[i]].order_id : i \in 1..Len(cleared_orders)} = ScenarioBIds

BothFilled ==
    /\ active_orders = <<>>
    /\ \A id \in ScenarioBIds : LatestRecord(id).status = "filled"
    /\ \A i \in 1..Len(cleared_orders) : heap[cleared_orders[i]].status = "filled"

\* C12 as stated: in scenario B both orders are filled and active_orders is
\* empty after the step in which they were submitted.
C12_ScenarioB_SameStep ==
    (ScenarioB /\ AfterStep(1)) => BothFilled

\* C12 (amended): in scenario B both orders are still active after the step
\* in which they were submitted; they are filled, and active_orders is empty,
\* once the clearing of the following step has returned them.
C12_ScenarioB_NextStep ==
    ScenarioB
        => /\ AfterStep(1)
              => /\ DictKeys(active_orders) = ScenarioBIds
                 /\ Len(order_history) = 2
           /\ (steps = 1 /\ ClearedAllActive) => BothFilled

C12_Witness ==
    /\ ScenarioB
    /\ steps = 1
    /\ pc = "advance"
    /\ ClearedAllActive
    /\ Len(order_history) = 4

----------------------------------------------------------------------------
(* The run loop *)

ExpectedSteps ==
    IF start_time <= end_time THEN (end_time - start_time) \div time_step + 1 ELSE 0

StepSpan == 6 * Len(Strategies) + 5

\* How far the run has got inside the current step: every action moves it on.
Position ==
    CASE pc = "init"             -> idx
      [] pc = "expire"           -> Len(Strategies) + 1
      [] pc = "clear"            -> Len(Strategies) + 2
      [] pc = "process_clearing" -> Len(Strategies) + 3
      [] pc = "feedback"         -> Len(Strategies) + 3 + idx
      [] pc = "decide"           -> 2 * Len(Strategies) + 4 * idx
      [] pc = "new"              -> 2 * Len(Strategies) + 4 * idx + 1
      [] pc = "updated"          -> 2 * Len(Strategies) + 4 * idx + 2
      [] pc = "canceled"         -> 2 * Len(Strategies) + 4 * idx + 3
      [] pc = "advance"          -> 6 * Len(Strategies) + 4
      [] OTHER                   -> 0

Progress == steps * StepSpan + Position

Returned == pc = "done"

InStep == pc \in {"expire", "clear", "process_clearing", "feedback", "decide",
                  "new", "updated", "canceled", "advance"}

\* C13: with plug-ins that return, run() terminates: while it has not
\* returned some action is always possible, every action moves the run
\* forward, and it never performs more than the expected number of steps.
\* When it returns it has performed exactly floor((end_time - start_time) /
\* time_step) + 1 steps if start_time <= end_time and none if start_time >
\* end_time; a step only runs at a current_time <= end_time and the loop stops
\* at the first current_time > end_time.
C13_RunTerminatesAfterExpectedSteps ==
    /\ [](raised = "none" =>
            /\ Returned \/ ENABLED Next
            /\ steps <= ExpectedSteps
            /\ current_time = start_time + steps * time_step
            /\ InStep => current_time <= end_time
            /\ Returned => /\ steps = ExpectedSteps
                           /\ current_time > end_time
                           /\ steps > 0 => current_time - time_step <= end_time)
    /\ [][raised' = "none" => (~Returned /\ (Returned' \/ Progress' > Progress))]_vars

C13_Witness == Returned /\ time_step > 1 /\ steps = ExpectedSteps /\ steps > 1 /\ order_history # <<>>

----------------------------------------------------------------------------
(* Strategy initialisation *)

Initialized(i) == pc # "init" \/ i < idx

\* C14: run() calls initialize(start_time, end_time) exactly once on every
\* strategy, with the simulation's own window, and all of these calls come
\* before the first process_results or update_orders call on any strategy.
C14_InitializeOncePerStrategyFirst ==
    /\ \A i \in StrategyIx :
          /\ window[Strategies[i]].calls = IF Initialized(i) THEN 1 ELSE 0
          /\ Initialized(i) => /\ window[Strategies[i]].start_time = start_time
                               /\ window[Strategies[i]].end_time = end_time
    /\ pc = "init" => /\ steps = 0
                      /\ step_log = <<>>
                      /\ \A s \in StrategyIds : results[s] = EmptyResults /\ view[s] = <<>>
                      /\ new_orders = <<>> /\ updated_orders = <<>> /\ canceled_orders = <<>>

C14_Witness ==
    /\ steps = 1
    /\ pc = "decide"
    /\ \A s \in StrategyIds : window[s].calls = 1 /\ results[s].active_orders # <<>>

----------------------------------------------------------------------------
(* Domains of the history records *)

Statuses == {"active", "filled", "canceled", "expired"}

EventTypes == {"submitted", "updated", "expired", "filled", "canceled"}

\* C15: every history record has a status among active, filled, canceled,
\* expired and an event_type among submitted, updated, expired, filled,
\* canceled; the record written for an update is no exception.
C15_RecordDomains ==
    \A i \in 1..Len(order_history) :
        /\ order_history[i].status \in Statuses
        /\ order_history[i].event_type \in EventTypes

----------------------------------------------------------------------------
(* Feedback *)

IdsOf(orders) == {heap[orders[i]].order_id : i \in 1..Len(orders)}

----------------------------------------------------------------------------
(* Orders returned by clear() that the engine does not hold *)

UnknownCleared == IdsOf(cleared_orders) \ DictKeys(active_orders)

\* C17: when clear() has returned an order whose order_id is not a key of
\* active_orders, processing the clearing results fails loudly and appends no
\* filled record for that order.
C17_UnknownClearedRejected ==
    [][(pc = "process_clearing" /\ UnknownCleared # {}) =>
          /\ raised' # "none"
          /\ \A i \in (Len(order_history) + 1)..Len(order_history') :
                ~(/\ order_history'[i].order_id \in UnknownCleared
                  /\ order_history'[i].event_type = "filled")]_vars

----------------------------------------------------------------------------
(* Exceptions *)

\* C18: an exception raised inside clear(), process_results() or
\* update_orders() leaves the run at once: the raise changes nothing of the
\* engine's state, and after it no action runs at all, so no later phase of
\* the step runs, current_time is not advanced and the call is not retried.
C18_PluginExceptionPropagates ==
    [][/\ raised = "none"
       /\ raised' # "none" =>
             /\ pc \in PluginCalls
             /\ pc' = "aborted"
             /\ UNCHANGED <<current_time, steps, idx, heap, active_orders, order_history,
                            expired_orders, cleared_orders, results, view, step_log>>]_vars

C18_Witness ==
    /\ raised = "Exception"
    /\ pc = "aborted"
    /\ steps >= 1
    /\ current_time = start_time + steps * time_step
    /\ active_orders # <<>>

\* C19: constructing an order with a side other than buy or sell fails with
\* an error and creates no order; every order that is constructed has side
\* buy or sell, status active, event_type submitted, update_count 0 and no
\* execution_time or execution_price, and an order built by a strategy's
\* create_order carries that strategy's id.
C19_OrderConstruction ==
    [][/\ \A a \in Addr :
             (heap[a] = NoObj /\ heap'[a] # NoObj) =>
                /\ heap'[a].side \in {"buy", "sell"}
                /\ heap'[a].status = "active"
                /\ heap'[a].event_type = "submitted"
                /\ heap'[a].update_count = 0
                /\ heap'[a].execution_time = None
                /\ heap'[a].execution_price = None
                /\ heap'[a].strategy_id = Strategies[idx]
       /\ raised' = "ValueError" =>
             /\ pc = "decide"
             /\ UNCHANGED <<heap, new_orders, updated_orders, canceled_orders,
                            active_orders, order_history>>]_vars

C19_Witness ==
    /\ raised = "ValueError"
    /\ pc = "aborted"
    /\ \E a \in Addr : heap[a] # NoObj /\ heap[a].update_count = 0

----------------------------------------------------------------------------
(* Engine-owned state *)

ActiveContents ==
    [i \in 1..Len(active_orders) |-> <<active_orders[i][1], heap[active_orders[i][2]]>>]

\* C20: while a plug-in call runs (clear, process_results, update_orders),
\* nothing the plug-in does to what it received changes the engine's
\* active_orders, neither its keys nor the orders it holds.
C20_PluginsCannotChangeActiveOrders ==
    [][(pc \in PluginCalls) => UNCHANGED ActiveContents]_vars

----------------------------------------------------------------------------
(* Submission time *)

FirstRecord(order_id) == order_history[MinOf(HistoryIx(order_id))]

\* C21: every order in active_orders has a submission_time, and it is the one
\* stamped when its order_id was first admitted; it never changes afterwards,
\* also when an accepted update replaces the active entry.
C21_SubmissionTimeSetOnce ==
    \A i \in 1..Len(active_orders) :
        LET order_id == active_orders[i][1]
            order == heap[active_orders[i][2]]
        IN  /\ order.submission_time # None
            /\ HistoryIx(order_id) # {}
            /\ order.submission_time = FirstRecord(order_id).submission_time

----------------------------------------------------------------------------
(* No clearing mechanism *)

AppendedIx == {i \in 1..Len(order_history') : i > Len(order_history)}

\* C22: when no clearing mechanism is configured, clear() is never called,
\* no history record has status or event_type filled, and an order_id leaves
\* active_orders only in a step that appends an expired or a canceled record
\* for it.
C22_NoClearingWithoutMechanism ==
    /\ [](~has_clearing =>
            /\ pc \notin {"clear", "process_clearing"}
            /\ cleared_orders = <<>>
            /\ Count(step_log, "clear") = 0
            /\ \A i \in 1..Len(order_history) :
                  /\ order_history[i].status # "filled"
                  /\ order_history[i].event_type # "filled")
    /\ [][~has_clearing =>
            \A order_id \in DictKeys(active_orders) \ DictKeys(active_orders') :
                /\ pc \in {"expire", "canceled"}
                /\ \E i \in AppendedIx :
                      /\ order_history'[i].order_id = order_id
                      /\ order_history'[i].event_type
                            = (IF pc = "expire" THEN "expired" ELSE "canceled")]_vars

C22_Witness ==
    /\ ~has_clearing
    /\ active_orders = <<>>
    /\ \E i, j \in 1..Len(order_history) :
          /\ order_history[i].event_type = "expired"
          /\ order_history[j].event_type = "canceled"

----------------------------------------------------------------------------
(* The clock *)

\* C23: after k completed steps current_time = start_time + k * time_step;
\* current_time changes only in the last action of step(), by time_step,
\* and that action touches neither active_orders nor order_history; every
\* record a step appends is stamped with the step's current_time (its
\* execution_time, or its submission_time when the order carried none).
C23_ClockAdvancesByTimeStep ==
    /\ [](/\ current_time = start_time + steps * time_step
          /\ time_step > 0)
    /\ [][/\ current_time' # current_time =>
                /\ pc = "advance"
                /\ current_time' = current_time + time_step
                /\ steps' = steps + 1
                /\ UNCHANGED <<active_orders, order_history>>
          /\ \A i \in AppendedIx :
                IF order_history'[i].event_type = "submitted"
                THEN \/ order_history'[i].submission_time = current_time
                     \/ \E a \in SeqRange(new_orders) :
                           /\ heap[a].submission_time # None
                           /\ heap[a].submission_time = order_history'[i].submission_time
                ELSE order_history'[i].execution_time = current_time]_vars

C23_Witness ==
    /\ steps = 2
    /\ pc = "advance"
    /\ time_step = 1
    /\ \E i, j \in 1..Len(order_history) :
          /\ order_history[i].submission_time = start_time
          /\ order_history[j].execution_time = start_time + 2 * time_step

----------------------------------------------------------------------------
(* The strategy loops of step() *)

Allocated == {a \in Addr : heap[a] = NoObj /\ heap'[a] # NoObj}

\* C24: in every step each strategy gets exactly one process_results call
\* and exactly one update_orders call, both in list order, and all the
\* process_results calls of the step come before its first update_orders
\* call: a feedback call only changes what its own strategy holds, and
\* nothing that is applied afterwards changes any delivered feedback.
C24_OneFeedbackOneDecisionPerStrategy ==
    [][/\ (pc = "feedback" /\ raised' = "none") =>
             /\ Count(step_log, "feedback") = idx - 1
             /\ Count(step_log, "decide") = 0
             /\ Count(step_log', "feedback") = idx
             /\ \A s \in StrategyIds \ {Strategies[idx]} :
                   results'[s] = results[s] /\ view'[s] = view[s]
             /\ IF idx < Len(Strategies)
                THEN pc' = "feedback" /\ idx' = idx + 1
                ELSE pc' = "decide" /\ idx' = 1
       /\ (pc = "decide" /\ raised' = "none") =>
             /\ Count(step_log, "feedback") = Len(Strategies)
             /\ Count(step_log, "decide") = idx - 1
             /\ Count(step_log', "decide") = idx
             /\ \A a \in Allocated : heap'[a].strategy_id = Strategies[idx]
       /\ (pc' = "advance" /\ pc # "advance") =>
             /\ Count(step_log', "feedback") = Len(Strategies)
             /\ Count(step_log', "decide") = Len(Strategies)
             /\ idx = Len(Strategies)
       /\ pc \in {"decide", "new", "updated", "canceled", "advance"} =>
             UNCHANGED <<results, view>>]_vars

C24_Witness ==
    /\ pc = "advance"
    /\ steps >= 1
    /\ Count(step_log, "feedback") = Len(Strategies)
    /\ Count(step_log, "decide") = Len(Strategies)
    /\ \A s \in StrategyIds : results[s] # EmptyResults

AppendedAre(event_type, n) ==
    /\ Len(order_history') = Len(order_history) + n
    /\ \A i \in AppendedIx : order_history'[i].event_type = event_type

NewIds == {heap[new_orders[i]].order_id : i \in 1..Len(new_orders)}

\* C25: the decisions of one update_orders call are applied as all
\* admissions, then all updates, then all cancellations, and only then is the
\* next strategy asked; a canceled order_id is not active after the
\* cancellations, so an order_id returned both as new and as canceled by the
\* same call is admitted and then canceled.
C25_ApplyNewThenUpdatedThenCanceled ==
    [][/\ (pc = "decide" /\ raised' = "none") =>
             /\ pc' = "new" /\ idx' = idx
             /\ UNCHANGED <<active_orders, order_history>>
       /\ pc = "new" =>
             /\ pc' = "updated" /\ idx' = idx
             /\ AppendedAre("submitted", Len(new_orders))
             /\ NewIds \subseteq DictKeys(active_orders')
             /\ UNCHANGED <<new_orders, updated_orders, canceled_orders>>
       /\ pc = "updated" =>
             /\ pc' = "canceled" /\ idx' = idx
             /\ \A i \in AppendedIx : order_history'[i].event_type = "updated"
             /\ DictKeys(active_orders') = DictKeys(active_orders)
             /\ UNCHANGED <<new_orders, updated_orders, canceled_orders>>
       /\ pc = "canceled" =>
             /\ IF idx < Len(Strategies)
                THEN pc' = "decide" /\ idx' = idx + 1
                ELSE pc' = "advance"
             /\ \A i \in AppendedIx : order_history'[i].event_type = "canceled"
             /\ SeqRange(canceled_orders) \cap DictKeys(active_orders') = {}
             /\ \A order_id \in NewIds \cap SeqRange(canceled_orders) :
                   /\ order_history'[Len(order_history')].order_id = order_id
                   /\ order_history'[Len(order_history')].event_type = "canceled"
                   /\ \E i \in 1..Len(order_history) :
                         /\ i > step_mark
                         /\ order_history[i].order_id = order_id
                         /\ order_history[i].event_type = "submitted"]_vars

C25_Witness ==
    /\ pc \in {"decide", "advance"}
    /\ Len(order_history) >= 2
    /\ Len(order_history) - 1 > step_mark
    /\ LET n == Len(order_history)
       IN  /\ order_history[n - 1].event_type = "submitted"
           /\ order_history[n].event_type = "canceled"
           /\ order_history[n].order_id = order_history[n - 1].order_id
           /\ order_history[n].execution_time = current_time
           /\ order_history[n - 1].submission_time = current_time
           /\ ~DictHas(active_orders, order_history[n].order_id)

----------------------------------------------------------------------------
(* Feedback by strategy *)

RECURSIVE IsSubsequence(_, _)
IsSubsequence(r, orders) ==
    IF r = <<>> THEN TRUE
    ELSE IF orders = <<>> THEN FALSE
    ELSE IF Head(r) = Head(orders) THEN IsSubsequence(Tail(r), Tail(orders))
    ELSE IsSubsequence(r, Tail(orders))

Occurrences(orders, a) == Cardinality({i \in 1..Len(orders) : orders[i] = a})

\* r holds exactly the orders of the sequence whose strategy_id is sid, as
\* often as they occur there and in the same order
IsShareOf(r, orders, sid) ==
    /\ IsSubsequence(r, orders)
    /\ \A a \in Addr :
          Occurrences(r, a) = IF heap[a].order_id # "none" /\ heap[a].strategy_id = sid
                              THEN Occurrences(orders, a) ELSE 0

\* C26: the feedback delivered to strategy S holds exactly the orders of this
\* step's expired set, this step's cleared set and the active set after
\* clearing whose strategy_id is S.id, in encounter order; a strategy with no
\* such orders gets three empty sequences.
C26_FeedbackPartitionedByStrategy ==
    [][(pc = "feedback" /\ raised' = "none") =>
          LET s == Strategies[idx]
              r == results'[s]
          IN  /\ IsShareOf(r.expired_orders, expired_orders, s)
              /\ IsShareOf(r.cleared_orders, cleared_orders, s)
              /\ IsShareOf(r.active_orders, DictValues(active_orders), s)
              /\ (\A a \in SeqRange(expired_orders) \cup SeqRange(cleared_orders)
                             \cup SeqRange(DictValues(active_orders)) :
                     heap[a].strategy_id # s) => r = EmptyResults]_vars

C26_Witness ==
    /\ pc = "decide"
    /\ results["s1"] = EmptyResults
    /\ results["s2"].active_orders # <<>>
    /\ results["s2"].expired_orders # <<>>
    /\ \E i \in 1..Len(active_orders) : heap[active_orders[i][2]].strategy_id = "s2"

OwnActiveIds(s) ==
    {active_orders[i][1] : i \in {j \in 1..Len(active_orders) :
                                     heap[active_orders[j][2]].strategy_id = s}}

ViewFresh(s) == DictKeys(view[s]) = OwnActiveIds(s)

\* C27 as stated: whenever update_orders is called on a strategy, the key set
\* of its local view equals the order_ids of the engine's active orders with
\* its strategy_id.
C27_ViewFreshAtEveryDecision ==
    pc = "decide" => ViewFresh(Strategies[idx])

\* C27: a strategy's view is rebuilt by its process_results call, and its key
\* set equals the order_ids of the engine's active orders with its
\* strategy_id from then until the first decision of the step is applied, so
\* at the update_orders call of the first strategy of the list.
C27_ViewFreshUntilFirstDecision ==
    /\ pc = "feedback" => \A i \in StrategyIx : i < idx => ViewFresh(Strategies[i])
    /\ (pc = "decide" /\ idx = 1) => \A s \in StrategyIds : ViewFresh(s)

C27_Witness ==
    /\ pc = "decide"
    /\ idx = 1
    /\ \A s \in StrategyIds : view[s] # <<>>

----------------------------------------------------------------------------
(* Terminal records *)

\* C28: the engine does not deduplicate what clear() returns: every element
\* of the result gets its own filled record, in order, so an order returned n
\* times gets n filled records in that step, and it is not active afterwards.
C28_EveryClearedElementFilled ==
    [][pc = "process_clearing" =>
          /\ Len(order_history') = Len(order_history) + Len(cleared_orders)
          /\ \A k \in 1..Len(cleared_orders) :
                LET record == order_history'[Len(order_history) + k]
                IN  /\ record.order_id = heap[cleared_orders[k]].order_id
                    /\ record.status = "filled"
                    /\ record.event_type = "filled"
                    /\ ~DictHas(active_orders', record.order_id)]_vars

C28_Witness ==
    /\ pc = "feedback"
    /\ Len(cleared_orders) = 2
    /\ cleared_orders[1] = cleared_orders[2]
    /\ LET n == Len(order_history)
       IN  /\ n >= 3
           /\ order_history[n].event_type = "filled"
           /\ order_history[n - 1].event_type = "filled"
           /\ order_history[n].order_id = order_history[n - 1].order_id
           /\ ~DictHas(active_orders, order_history[n].order_id)

TerminalEvents == {"expired", "filled", "canceled"}

\* C29: every record appended for an expiry, a fill or an accepted cancel has
\* status and event_type both expired, filled or canceled, has execution_time
\* equal to the current_time of the step, and its order is not in
\* active_orders once the engine method that appended it is done.
C29_TerminalRecordsStamped ==
    [][\A i \in AppendedIx :
          order_history'[i].event_type \in TerminalEvents =>
             /\ order_history'[i].status = order_history'[i].event_type
             /\ order_history'[i].execution_time = current_time
             /\ ~DictHas(active_orders', order_history'[i].order_id)
             /\ order_history'[i].event_type
                   = (CASE pc = "expire" -> "expired"
                        [] pc = "process_clearing" -> "filled"
                        [] pc = "canceled" -> "canceled"
                        [] OTHER -> "none")]_vars

C29_Witness ==
    /\ \E i, j \in 1..Len(order_history) :
          /\ order_history[i].event_type = "filled"
          /\ order_history[j].event_type = "canceled"
          /\ order_history[i].order_id # order_history[j].order_id
    /\ active_orders = <<>>

----------------------------------------------------------------------------
(* Order.update on its own: an order in any state of its life, any          *)
(* combination of supplied and omitted arguments, called repeatedly.         *)

OrderSamples ==
    {[OrderInit(FreshTerms.price, FreshTerms.quantity, ct, side, "a", st, sid)
         EXCEPT !.status = status]
        : ct \in ContractTimes, side \in {"buy", "sell"}, st \in {None, 0},
          sid \in StrategyIds, status \in {"active", "filled", "canceled", "expired"}}

UpdateCallArgs ==
    {<<price, quantity>> : price \in {None, AmendedTerms.price},
                           quantity \in {None, AmendedTerms.quantity}}

InitOrderUpdate ==
    /\ pc = "order_update"
    /\ idx = 1
    /\ has_clearing = FALSE
    /\ start_time = 0
    /\ end_time = EndTime
    /\ time_step = 1
    /\ current_time = 0
    /\ \E o \in OrderSamples : heap = [a \in Addr |-> IF a = 1 THEN o ELSE NoObj]
    /\ update_args \in UpdateCallArgs
    /\ active_orders = <<>>
    /\ order_history = <<>>
    /\ expired_orders = <<>>
    /\ cleared_orders = <<>>
    /\ results = [s \in StrategyIds |-> EmptyResults]
    /\ view = [s \in StrategyIds |-> <<>>]
    /\ window = [s \in StrategyIds |-> [start_time |-> None, end_time |-> None, calls |-> 0]]
    /\ new_orders = <<>>
    /\ updated_orders = <<>>
    /\ canceled_orders = <<>>
    /\ pre_update = <<>>
    /\ step_log = <<>>
    /\ step_mark = 0
    /\ expire_mark = 0
    /\ steps = 0
    /\ clearing_memo = <<>>
    /\ raised = "none"

\* order.update(price, quantity) with the arguments drawn for this call; the
\* arguments of the next call are drawn afresh.
OrderUpdateCall ==
    /\ pc = "order_update"
    /\ heap[1].update_count < MaxUpdates
    /\ heap' = [heap EXCEPT ![1] = OrderUpdate(@, update_args[1], update_args[2])]
    /\ update_args' \in UpdateCallArgs
    /\ UNCHANGED <<pc, idx, has_clearing, start_time, end_time, time_step, clearing_memo,
                   raised, steps, current_time, active_orders, order_history,
                   expired_orders, cleared_orders, results, view, window, new_orders,
                   updated_orders, canceled_orders, pre_update, step_log, step_mark,
                   expire_mark>>

NextOrderUpdate == OrderUpdateCall

SpecOrderUpdate == InitOrderUpdate /\ [][NextOrderUpdate]_vars

FrameFields == {"order_id", "strategy_id", "side", "contract_time", "status",
                "event_type", "submission_time", "execution_time", "execution_price"}

\* C30: Order.update(price?, quantity?) overwrites price and quantity exactly
\* when they are supplied, leaves order_id, strategy_id, side, contract_time,
\* status, event_type, submission_time and the execution fields as they were,
\* and adds exactly 1 to update_count on every call, also when neither
\* argument is supplied.
C30_OrderUpdateFrame ==
    [][pc = "order_update" =>
          LET o == heap[1]
              n == heap'[1]
          IN  /\ n.price = (IF update_args[1] = None THEN o.price ELSE update_args[1])
              /\ n.quantity = (IF update_args[2] = None THEN o.quantity ELSE update_args[2])
              /\ n.update_count = o.update_count + 1
              /\ DOMAIN n = DOMAIN o
              /\ \A f \in FrameFields : n[f] = o[f]
              /\ \A a \in Addr \ {1} : heap'[a] = heap[a]]_vars

C30_Witness ==
    /\ pc = "order_update"
    /\ heap[1].update_count >= 1
    /\ heap[1].price = FreshTerms.price
    /\ heap[1].quantity = FreshTerms.quantity
    /\ heap[1].status = "expired"

----------------------------------------------------------------------------
(* Ownership *)

ActiveOrder(order_id) == heap[DictGet(active_orders, order_id)]

\* C31: the apply phase makes no ownership check: an update or a cancel that
\* a strategy returns takes effect on every order_id that is active at that
\* moment, whatever the strategy_id of the active order, so also on an order
\* of another strategy and on one admitted earlier in the same step.
C31_NoOwnershipCheck ==
    [][/\ pc = "updated" =>
             \A k \in 1..Len(updated_orders) :
                LET order_id == heap[updated_orders[k]].order_id
                IN  IsActive(order_id) =>
                       /\ DictGet(active_orders', order_id) = updated_orders[k]
                       /\ \E i \in AppendedIx :
                             /\ order_history'[i].order_id = order_id
                             /\ order_history'[i].event_type = "updated"
                             /\ order_history'[i].strategy_id
                                   = ActiveOrder(order_id).strategy_id
       /\ pc = "canceled" =>
             \A k \in 1..Len(canceled_orders) :
                LET order_id == canceled_orders[k]
                IN  IsActive(order_id) =>
                       /\ ~DictHas(active_orders', order_id)
                       /\ \E i \in AppendedIx :
                             /\ order_history'[i].order_id = order_id
                             /\ order_history'[i].event_type = "canceled"
                             /\ order_history'[i].strategy_id
                                   = ActiveOrder(order_id).strategy_id]_vars

\* the second strategy has just updated, with an order of its own making, an
\* order that the first strategy submitted earlier in the same step
C31_Witness ==
    /\ pc = "canceled"
    /\ idx = 2
    /\ Len(updated_orders) = 1
    /\ heap[updated_orders[1]].strategy_id = Strategies[2]
    /\ Len(order_history) >= 2
    /\ LET n == Len(order_history)
           order_id == heap[updated_orders[1]].order_id
       IN  /\ n - 1 > step_mark
           /\ order_history[n].event_type = "updated"
           /\ order_history[n].order_id = order_id
           /\ order_history[n].strategy_id = Strategies[1]
           /\ order_history[n - 1].event_type = "submitted"
           /\ order_history[n - 1].order_id = order_id
           /\ IsActive(order_id)
           /\ DictGet(active_orders, order_id) = updated_orders[1]

----------------------------------------------------------------------------
(* The end of the run *)

LastStep == current_time <= end_time /\ end_time < current_time + time_step

AdmittedInStep == {i \in StepRecords : order_history[i].event_type = "submitted"}

CanceledInStepAfter(i) ==
    \E j \in StepRecords :
        /\ j > i
        /\ order_history[j].order_id = order_history[i].order_id
        /\ order_history[j].event_type = "canceled"

TerminalRecordAfter(i) ==
    \E j \in 1..Len(order_history) :
        /\ j > i
        /\ order_history[j].order_id = order_history[i].order_id
        /\ order_history[j].event_type \in TerminalEvents

----------------------------------------------------------------------------
(* Keys of active_orders *)

\* C33: every entry of active_orders is keyed by the order_id of the order
\* it holds and no key occurs twice, so an order_id is active at most once;
\* admitting an order whose order_id is already active overwrites that entry
\* and adds none.
C33_KeyedByOwnOrderId ==
    /\ [](/\ \A i \in 1..Len(active_orders) :
                active_orders[i][1] = heap[active_orders[i][2]].order_id
          /\ \A i, j \in 1..Len(active_orders) :
                active_orders[i][1] = active_orders[j][1] => i = j)
    /\ [][pc = "new" =>
             /\ DictKeys(active_orders') = DictKeys(active_orders) \cup NewIds
             /\ Len(active_orders') = Cardinality(DictKeys(active_orders) \cup NewIds)
             /\ \A k \in 1..Len(new_orders) :
                   (\A m \in 1..Len(new_orders) : m > k => new_orders[m] = new_orders[k])
                      => DictGet(active_orders', heap[new_orders[k]].order_id)
                            = new_orders[k]]_vars

\* an order_id that was active has just been admitted again with another
\* Order object
C33_Witness ==
    /\ pc = "updated"
    /\ Len(new_orders) = 1
    /\ Len(active_orders) = 1
    /\ active_orders[1][2] = new_orders[1]
    /\ Len(order_history) >= 2
    /\ LET n == Len(order_history)
       IN  /\ order_history[n].event_type = "submitted"
           /\ order_history[n - 1].event_type = "submitted"
           /\ order_history[n].order_id = order_history[n - 1].order_id
           /\ order_history[n].order_id = active_orders[1][1]
           /\ order_history[n].contract_time # order_history[n - 1].contract_time

----------------------------------------------------------------------------
(* History records and admission *)

SubmittedBefore(i) ==
    \E j \in 1..Len(order_history) :
        /\ j < i
        /\ order_history[j].order_id = order_history[i].order_id
        /\ order_history[j].event_type = "submitted"

\* C34: with a clearing mechanism that returns only orders of the mapping it
\* was given, every history record with event_type updated, expired, filled
\* or canceled comes after a submitted record for the same order_id.
C34_EventsFollowSubmission ==
    \A i \in 1..Len(order_history) :
        order_history[i].event_type \in {"updated", "expired", "filled", "canceled"}
           => SubmittedBefore(i)

C34_Witness ==
    /\ has_clearing
    /\ \E i, j \in 1..Len(order_history) :
          /\ order_history[i].event_type = "updated"
          /\ order_history[j].event_type = "filled"
          /\ order_history[j].order_id = order_history[i].order_id
          /\ i < j

----------------------------------------------------------------------------
(* Cancellation *)

Delivered(r) ==
    SeqRange(r.expired_orders) \cup SeqRange(r.cleared_orders) \cup SeqRange(r.active_orders)

HasCanceledRecord(order_id) ==
    \E i \in HistoryIx(order_id) : order_history[i].event_type = "canceled"

\* C35: an accepted cancel leaves the live Order object as it is, with status
\* active, and an order that has a canceled record is never again delivered
\* to a strategy, in none of the three feedback sequences.
C35_CanceledOnlyInHistory ==
    [][/\ pc = "canceled" =>
             \A k \in 1..Len(canceled_orders) :
                IsActive(canceled_orders[k]) =>
                   LET a == DictGet(active_orders, canceled_orders[k])
                   IN  /\ heap[a].status = "active"
                       /\ heap'[a] = NoObj \/ heap'[a] = heap[a]
       /\ (pc = "feedback" /\ raised' = "none") =>
             \A a \in Delivered(results'[Strategies[idx]]) :
                ~HasCanceledRecord(heap[a].order_id)]_vars

----------------------------------------------------------------------------
(* Accepted updates *)

\* C36: an accepted update makes the Order object the strategy returned the
\* active entry of its order_id, in the place of the previous entry: every
\* field of the entry is then the returned object's (side, contract_time,
\* strategy_id, status, submission_time, price, quantity), except update_count,
\* which is the previous entry's update_count plus 1.
C36_UpdateReplacesEntry ==
    [][pc = "updated" =>
          /\ Len(active_orders') = Len(active_orders)
          /\ \A k \in 1..Len(updated_orders) :
                LET u == updated_orders[k]
                    order_id == heap[u].order_id
                IN  (/\ IsActive(order_id)
                     /\ \A m \in 1..Len(updated_orders) : m # k =>
                           heap[updated_orders[m]].order_id # order_id) =>
                       /\ DictGet(active_orders', order_id) = u
                       /\ heap'[u] = [heap[u] EXCEPT
                                         !.update_count = ActiveOrder(order_id).update_count + 1]]_vars

\* the entry now differs from the previous one, whose snapshot is the last
\* record, in side, contract_time, strategy_id and submission_time
C36_Witness ==
    /\ pc = "canceled"
    /\ Len(updated_orders) = 1
    /\ order_history # <<>>
    /\ LET u == heap[updated_orders[1]]
           previous == order_history[Len(order_history)]
       IN  /\ IsActive(u.order_id)
           /\ DictGet(active_orders, u.order_id) = updated_orders[1]
           /\ previous.event_type = "updated"
           /\ previous.order_id = u.order_id
           /\ previous.side # u.side
           /\ previous.contract_time # u.contract_time
           /\ previous.strategy_id # u.strategy_id
           /\ previous.submission_time # u.submission_time
           /\ u.update_count = previous.update_count + 1

====
